---- MODULE Spec2Model ----
(***************************************************************************)
(* A model of bnida-cli: the canonical store (schema.py), the address      *)
(* index and query engine, the mutation operations and the command loop    *)
(* of main (__main__.py).                                                  *)
(*                                                                         *)
(* JSON text is modelled structurally.  A Python str that the code parses  *)
(* or formats as a number is a tuple of one-character strings, so that     *)
(* int(s, 0) and str(n) are computed digit by digit.  Names and comments   *)
(* are opaque TLA+ strings.  A JSON object is the sequence of its          *)
(* (key, value) pairs in file order, with distinct keys, as json.load      *)
(* hands it over through object_pairs_hook=OrderedDict.                    *)
(***************************************************************************)
EXTENDS Integers, Sequences, FiniteSets, TLC

(***************************************************************************)
(* Bounds                                                                  *)
(***************************************************************************)
\* addresses given on the command line are 0..MaxAddr
MaxAddr == 1

\* invocations of the program in one behaviour
MaxCmds == 2

\* window sizes given to query with -B / -A are 0..MaxCount
MaxCount == 2

\* the stores that queries are checked on hold addresses 0..MaxQAddr
MaxQAddr == 3

Addrs == 0 .. MaxAddr

\* name / comment arguments of the command line ("" is the empty string)
Vals == {"", "a", "b"}

(***************************************************************************)
(* Generic helpers                                                         *)
(***************************************************************************)
Range(s) == {s[i] : i \in 1 .. Len(s)}

Max(a, b) == IF a >= b THEN a ELSE b

Min(a, b) == IF a <= b THEN a ELSE b

\* a slice bound of Python: negative bounds count from the end, all clamp
SliceBound(i, n) == IF i < 0 THEN Max(i + n, 0) ELSE Min(i, n)

\* Python slice s[lo:hi]
Slice(s, lo, hi) ==
    LET l == SliceBound(lo, Len(s))
        h == SliceBound(hi, Len(s))
    IN  IF l >= h THEN << >> ELSE [i \in 1 .. (h - l) |-> s[l + i]]

\* sorted(S) for a finite set of integers
RECURSIVE SortedSeq(_)
SortedSeq(S) ==
    IF S = {} THEN << >>
    ELSE LET m == CHOOSE x \in S : \A y \in S : x <= y
         IN  << m >> \o SortedSeq(S \ {m})

\* sorted(list) for a list of integers: stable order, duplicates kept
RECURSIVE SortedList(_)
SortedList(s) ==
    IF s = << >> THEN << >>
    ELSE LET m == CHOOSE x \in Range(s) : \A y \in Range(s) : x <= y
             i == CHOOSE k \in 1 .. Len(s) : s[k] = m
         IN  << m >> \o SortedList(SubSeq(s, 1, i - 1) \o SubSeq(s, i + 1, Len(s)))

(***************************************************************************)
(* Python str <-> int                                                      *)
(***************************************************************************)
HexDigits == << "0", "1", "2", "3", "4", "5", "6", "7",
                "8", "9", "a", "b", "c", "d", "e", "f" >>

\* value of a digit character, or 99 for a character that is no digit
DigitVal(c) ==
    IF \E i \in 1 .. 16 : HexDigits[i] = c
    THEN (CHOOSE i \in 1 .. 16 : HexDigits[i] = c) - 1
    ELSE 99

RECURSIVE DigitsValue(_, _)
DigitsValue(s, base) ==
    IF s = << >> THEN 0
    ELSE DigitsValue(SubSeq(s, 1, Len(s) - 1), base) * base + DigitVal(s[Len(s)])

AllDigits(s, base) == Len(s) >= 1 /\ \A i \in 1 .. Len(s) : DigitVal(s[i]) < base

Failure == [ok |-> FALSE, v |-> 0]

Ok(n) == [ok |-> TRUE, v |-> n]

\* int(s, 0) on an unsigned literal: 0x / 0o / 0b prefix selects the base,
\* anything else is decimal, where a leading zero is allowed only for zero.
\* (Whitespace, upper case and digit-group underscores are outside the
\* alphabet modelled here.)
IntLiteral(s) ==
    IF Len(s) >= 2 /\ s[1] = "0" /\ s[2] \in {"x", "o", "b"}
    THEN LET base == IF s[2] = "x" THEN 16 ELSE IF s[2] = "o" THEN 8 ELSE 2
             d    == SubSeq(s, 3, Len(s))
         IN  IF AllDigits(d, base) THEN Ok(DigitsValue(d, base)) ELSE Failure
    ELSE IF AllDigits(s, 10) /\ (s[1] # "0" \/ \A i \in 1 .. Len(s) : s[i] = "0")
         THEN Ok(DigitsValue(s, 10))
         ELSE Failure

\* result r of a step that may raise, handed to the step that follows
Bind(r, F(_)) == IF r.ok THEN F(r.v) ELSE Failure

\* the results of a loop whose body may raise: the list of values, or the
\* failure of the first body that raised
Collect(rs) ==
    IF \E i \in 1 .. Len(rs) : ~rs[i].ok THEN Failure
    ELSE Ok([i \in 1 .. Len(rs) |-> rs[i].v])

\* int(s, 0): ok = FALSE stands for the ValueError
IntBase0(s) ==
    IF Len(s) >= 1 /\ s[1] \in {"-", "+"}
    THEN Bind(IntLiteral(SubSeq(s, 2, Len(s))),
              LAMBDA v : Ok(IF s[1] = "-" THEN 0 - v ELSE v))
    ELSE IntLiteral(s)

\* str(n) for n >= 0
RECURSIVE StrNat(_)
StrNat(n) ==
    IF n < 10 THEN << HexDigits[n + 1] >>
    ELSE StrNat(n \div 10) \o << HexDigits[(n % 10) + 1] >>

\* str(n)
Str(n) == IF n < 0 THEN << "-" >> \o StrNat(0 - n) ELSE StrNat(n)

\* parse_address: the argparse type of every address argument;
\* ok = FALSE stands for the ArgumentTypeError (usage error, exit code 2)
parse_address(value) ==
    Bind(IntBase0(value), LAMBDA addr : IF addr < 0 THEN Failure ELSE Ok(addr))

(***************************************************************************)
(* JSON values                                                             *)
(***************************************************************************)
\* a JSON value in a place where the code expects an address or a number:
\* t is "int", "str" (s is the text), or "null" / "float" / "absent"
JInt(n) == [t |-> "int", n |-> n, s |-> << >>]

JNumStr(s) == [t |-> "str", n |-> 0, s |-> s]

JNumOther(t) == [t |-> t, n |-> 0, s |-> << >>]

\* a JSON value in a place where the code expects text
JText(x) == [t |-> "str", x |-> x]

JTextOther(t) == [t |-> t, x |-> ""]

\* a JSON value in a place where the code expects an object or a list:
\* t is "obj" / "list" (items holds the pairs / elements) or anything else
JObj(items) == [t |-> "obj", items |-> items]

JList(items) == [t |-> "list", items |-> items]

JAbsent == [t |-> "absent", items |-> << >>]

JNotContainer == [t |-> "other", items |-> << >>]

(***************************************************************************)
(* schema.py: normalize                                                    *)
(***************************************************************************)
STANDARD_KEYS == {"sections", "names", "functions", "func_comments",
                  "line_comments", "structs"}

\* _as_mapping: the pairs of a JSON object, no pairs for anything else
_as_mapping(value) == IF value.t = "obj" THEN value.items ELSE << >>

\* mapping.get(field) on the result of _as_mapping: None when the value is
\* no object (a missing key is written as a value of kind "absent")
MapGetNum(value, field) ==
    IF value.t = "obj" THEN value[field] ELSE JNumOther("absent")

MapGetText(value, field) ==
    IF value.t = "obj" THEN value[field] ELSE JTextOther("absent")

\* _parse_int: ok = FALSE stands for the ValueError of int(value, 0)
_parse_int(value) ==
    IF value.t = "int" THEN Ok(value.n)
    ELSE IF value.t = "str" THEN IntBase0(value.s)
    ELSE Ok(0)

_parse_str(value) == IF value.t = "str" THEN value.x ELSE ""

\* the dict built by assigning pairs[i][1] -> pairs[i][2] in order
DictOf(pairs) ==
    LET keys == {pairs[i][1] : i \in 1 .. Len(pairs)}
        last(k) == CHOOSE i \in 1 .. Len(pairs) :
                       /\ pairs[i][1] = k
                       /\ \A j \in (i + 1) .. Len(pairs) : pairs[j][1] # k
    IN  [k \in keys |-> pairs[last(k)][2]]

_parse_address_list(value) ==
    IF value.t # "list" THEN Ok(<< >>)
    ELSE Collect([i \in 1 .. Len(value.items) |-> _parse_int(value.items[i])])

\* one assignment parsed[key] = val of a parsing loop, key being a result
ParsedItem(key, val) == Bind(key, LAMBDA k : Ok(<< k, val >>))

\* a JSON object key is a str
_parse_address_map(value) ==
    Bind(Collect([i \in 1 .. Len(_as_mapping(value)) |->
                     ParsedItem(_parse_int(JNumStr(_as_mapping(value)[i][1])),
                                _parse_str(_as_mapping(value)[i][2]))]),
         LAMBDA items : Ok(DictOf(items)))

\* the dict literal with the keys start and end
ParsedSection(start, end) ==
    IF start.ok /\ end.ok THEN Ok([start |-> start.v, end |-> end.v]) ELSE Failure

\* one assignment parsed[name] = val of a parsing loop, val being a result
NamedItem(name, val) == Bind(val, LAMBDA v : Ok(<< name, v >>))

_parse_sections(value) ==
    Bind(Collect([i \in 1 .. Len(_as_mapping(value)) |->
                     NamedItem(_as_mapping(value)[i][1],
                               ParsedSection(
                                   _parse_int(MapGetNum(_as_mapping(value)[i][2], "start")),
                                   _parse_int(MapGetNum(_as_mapping(value)[i][2], "end"))))]),
         LAMBDA items : Ok(DictOf(items)))

\* the dict literal with the keys offset, size and type
ParsedMember(offset, size, type) ==
    IF offset.ok /\ size.ok
    THEN Ok([offset |-> offset.v, size |-> size.v, type |-> type])
    ELSE Failure

_parse_struct_member(value) ==
    ParsedMember(_parse_int(MapGetNum(value, "offset")),
                 _parse_int(MapGetNum(value, "size")),
                 _parse_str(MapGetText(value, "type")))

\* struct_map.get("members") read through _as_mapping
MembersRaw(struct_val) ==
    IF struct_val.t = "obj" THEN _as_mapping(struct_val.members) ELSE << >>

\* the inner loop of _parse_structs
StructMembers(members_raw) ==
    Bind(Collect([i \in 1 .. Len(members_raw) |->
                     NamedItem(members_raw[i][1],
                               _parse_struct_member(members_raw[i][2]))]),
         LAMBDA items : Ok(DictOf(items)))

\* the dict literal with the keys size and members
ParsedStruct(size, members) ==
    IF size.ok /\ members.ok THEN Ok([size |-> size.v, members |-> members.v])
    ELSE Failure

_parse_structs(value) ==
    Bind(Collect([i \in 1 .. Len(_as_mapping(value)) |->
                     NamedItem(_as_mapping(value)[i][1],
                               ParsedStruct(
                                   _parse_int(MapGetNum(_as_mapping(value)[i][2], "size")),
                                   StructMembers(MembersRaw(_as_mapping(value)[i][2]))))]),
         LAMBDA items : Ok(DictOf(items)))

\* the dict literal of normalize_bnida
BnidaData(sections, names, functions, func_comments, line_comments, structs) ==
    IF sections.ok /\ names.ok /\ functions.ok /\ func_comments.ok
       /\ line_comments.ok /\ structs.ok
    THEN Ok([sections      |-> sections.v,
             names         |-> names.v,
             functions     |-> functions.v,
             func_comments |-> func_comments.v,
             line_comments |-> line_comments.v,
             structs       |-> structs.v])
    ELSE Failure

\* normalize_bnida: raw.get(key, default) is the field of the raw record, a
\* missing key being a value of kind "absent"; ok = FALSE stands for the
\* ValueError that leaves normalize_bnida
normalize_bnida(raw) ==
    BnidaData(_parse_sections(raw.sections),
              _parse_address_map(raw.names),
              _parse_address_list(raw.functions),
              _parse_address_map(raw.func_comments),
              _parse_address_map(raw.line_comments),
              _parse_structs(raw.structs))

(***************************************************************************)
(* schema.py: serialize                                                    *)
(***************************************************************************)
\* code point order of the characters used in section, struct and member names
Alphabet == << "+", "-", ".", "0", "1", "2", "3", "4", "5", "6", "7", "8", "9",
               "a", "b", "c", "d", "e", "f", "o", "s", "t", "x", "z" >>

CharRank(c) == CHOOSE i \in 1 .. Len(Alphabet) : Alphabet[i] = c

\* a < b for Python strings
RECURSIVE StrLess(_, _)
StrLess(a, b) ==
    IF b = << >> THEN FALSE
    ELSE IF a = << >> THEN TRUE
    ELSE IF a[1] # b[1] THEN CharRank(a[1]) < CharRank(b[1])
    ELSE StrLess(Tail(a), Tail(b))

\* sorted(S) for a finite set of Python strings
RECURSIVE SortedNames(_)
SortedNames(S) ==
    IF S = {} THEN << >>
    ELSE LET m == CHOOSE x \in S : \A y \in S \ {x} : StrLess(x, y)
         IN  << m >> \o SortedNames(S \ {m})

_format_address_map(values) ==
    LET order == SortedSeq(DOMAIN values)
    IN  JObj([i \in 1 .. Len(order) |-> << Str(order[i]), JText(values[order[i]]) >>])

_format_sections(values) ==
    LET order == SortedNames(DOMAIN values)
    IN  JObj([i \in 1 .. Len(order) |->
                 << order[i],
                    [t     |-> "obj",
                     start |-> JInt(values[order[i]].start),
                     end   |-> JInt(values[order[i]].end)] >>])

FormatMembers(members) ==
    LET order == SortedNames(DOMAIN members)
    IN  JObj([i \in 1 .. Len(order) |->
                 << order[i],
                    [t      |-> "obj",
                     offset |-> JInt(members[order[i]].offset),
                     size   |-> JInt(members[order[i]].size),
                     type   |-> JText(members[order[i]].type)] >>])

_format_structs(values) ==
    LET order == SortedNames(DOMAIN values)
    IN  JObj([i \in 1 .. Len(order) |->
                 << order[i],
                    [t       |-> "obj",
                     size    |-> JInt(values[order[i]].size),
                     members |-> FormatMembers(values[order[i]].members)] >>])

\* merge_bnida: the six recognized keys first, then the unrecognized keys of
\* raw in their order (raw.extra holds exactly the pairs whose key is not a
\* member of STANDARD_KEYS)
merge_bnida(raw, data) ==
    [t             |-> "obj",
     sections      |-> _format_sections(data.sections),
     names         |-> _format_address_map(data.names),
     functions     |-> LET sorted == SortedList(data.functions)
                       IN  JList([i \in 1 .. Len(sorted) |-> JInt(sorted[i])]),
     func_comments |-> _format_address_map(data.func_comments),
     line_comments |-> _format_address_map(data.line_comments),
     structs       |-> _format_structs(data.structs),
     extra         |-> raw.extra]

\* BnidaDocument.from_json
from_json(raw) ==
    Bind(normalize_bnida(raw), LAMBDA data : Ok([raw |-> raw, data |-> data]))

\* BnidaDocument.to_json
to_json(doc) == merge_bnida(doc.raw, doc.data)

(***************************************************************************)
(* __main__.py: the mutation operations                                    *)
(*                                                                         *)
(* Every operation maps the document to [err, doc]: err is "none" when the *)
(* call returns, else the exception that leaves it; doc is the document as *)
(* the call leaves it in memory.                                           *)
(*   "EmptyValue" = CliError, "Conflict" = OverwriteError,                 *)
(*   "NotFound"   = MissingEntryError                                      *)
(***************************************************************************)
\* d[k] = v on a dict
DictSet(d, k, v) == [x \in DOMAIN d \cup {k} |-> IF x = k THEN v ELSE d[x]]

\* del d[k] on a dict
DictDel(d, k) == [x \in DOMAIN d \ {k} |-> d[x]]

\* raises CliError
ensure_name_nonempty(name) == IF name = "" THEN "EmptyValue" ELSE "none"

\* ensure_name_available with the comparison dropped: nothing is refused
ensure_name_available_Unchecked(doc, address, name) == "none"

\* raises OverwriteError
ensure_name_available(doc, address, name) ==
    IF address \in DOMAIN doc.data.names /\ doc.data.names[address] # name
    THEN "Conflict" ELSE "none"

\* ensure_comment_available with the comparison dropped: nothing is refused
ensure_comment_available_Unchecked(doc, address, comment) == "none"

\* raises OverwriteError
ensure_comment_available(doc, address, comment) ==
    IF address \in DOMAIN doc.data.line_comments
       /\ doc.data.line_comments[address] # comment
    THEN "Conflict" ELSE "none"

\* raises MissingEntryError
ensure_name_exists(doc, address) ==
    IF address \notin DOMAIN doc.data.names THEN "NotFound" ELSE "none"

\* raises MissingEntryError
ensure_comment_exists(doc, address) ==
    IF address \notin DOMAIN doc.data.line_comments THEN "NotFound" ELSE "none"

Raise(err, doc) == [err |-> err, doc |-> doc]

Return(doc) == [err |-> "none", doc |-> doc]

\* a check that may raise followed by the rest of the operation
Then(err, doc, rest) == IF err # "none" THEN Raise(err, doc) ELSE rest

\* add_function appending to the list instead of inserting into the set
add_function_Append(doc, address, name) ==
    Then(ensure_name_nonempty(name), doc,
    Then(ensure_name_available(doc, address, name), doc,
    Return([doc EXCEPT
               !.data.functions = SortedList(doc.data.functions \o << address >>),
               !.data.names = DictSet(@, address, name)])))

add_function(doc, address, name) ==
    Then(ensure_name_nonempty(name), doc,
    Then(ensure_name_available(doc, address, name), doc,
    Return([doc EXCEPT
               !.data.functions = SortedSeq(Range(doc.data.functions) \cup {address}),
               !.data.names = DictSet(@, address, name)])))

\* add_variable making the two checks in the other order
add_variable_ConflictFirst(doc, address, name) ==
    Then(ensure_name_available(doc, address, name), doc,
    Then(ensure_name_nonempty(name), doc,
    Return([doc EXCEPT !.data.names = DictSet(@, address, name)])))

add_variable(doc, address, name) ==
    Then(ensure_name_nonempty(name), doc,
    Then(ensure_name_available(doc, address, name), doc,
    Return([doc EXCEPT !.data.names = DictSet(@, address, name)])))

add_comment(doc, address, comment) ==
    Then(ensure_comment_available(doc, address, comment), doc,
    Return([doc EXCEPT !.data.line_comments = DictSet(@, address, comment)]))

\* rename_name without the call of ensure_name_exists
rename_name_Upsert(doc, address, name) ==
    IF name = ""
    THEN Return([doc EXCEPT !.data.names = DictDel(@, address)])
    ELSE Return([doc EXCEPT !.data.names = DictSet(@, address, name)])

\* rename_name taking the address out of functions when it deletes the name
rename_name_Unlink(doc, address, name) ==
    Then(ensure_name_exists(doc, address), doc,
    IF name = ""
    THEN Return([doc EXCEPT
                    !.data.names = DictDel(@, address),
                    !.data.functions = SortedSeq(Range(@) \ {address})])
    ELSE Return([doc EXCEPT !.data.names = DictSet(@, address, name)]))

rename_name(doc, address, name) ==
    Then(ensure_name_exists(doc, address), doc,
    IF name = ""
    THEN Return([doc EXCEPT !.data.names = DictDel(@, address)])
    ELSE Return([doc EXCEPT !.data.names = DictSet(@, address, name)]))

\* rename_comment storing the empty text instead of deleting the entry
rename_comment_Blank(doc, address, comment) ==
    Then(ensure_comment_exists(doc, address), doc,
    Return([doc EXCEPT !.data.line_comments = DictSet(@, address, comment)]))

rename_comment(doc, address, comment) ==
    Then(ensure_comment_exists(doc, address), doc,
    IF comment = ""
    THEN Return([doc EXCEPT !.data.line_comments = DictDel(@, address)])
    ELSE Return([doc EXCEPT !.data.line_comments = DictSet(@, address, comment)]))

(***************************************************************************)
(* The address index and the query engine                                  *)
(***************************************************************************)
\* collect_addresses without the keys of func_comments
collect_addresses_NoFuncComments(data) ==
    SortedSeq(DOMAIN data.names \cup DOMAIN data.line_comments
              \cup Range(data.functions))

\* schema.py collect_addresses
collect_addresses(data) ==
    SortedSeq(DOMAIN data.names \cup DOMAIN data.line_comments
              \cup DOMAIN data.func_comments \cup Range(data.functions))

\* the dict {"address": addr}; an optional key of AddressEntry is a flag and
\* a value, the value being "" while the flag is FALSE
BareEntry(addr) ==
    [address |-> addr,
     has_name |-> FALSE, name |-> "",
     function |-> FALSE,
     has_line_comment |-> FALSE, line_comment |-> "",
     has_func_comment |-> FALSE, func_comment |-> ""]

\* the entry that the loop body of iter_address_entries builds for addr
AddressEntry(data, addr) ==
    [address |-> addr,
     has_name |-> addr \in DOMAIN data.names,
     name |-> IF addr \in DOMAIN data.names THEN data.names[addr] ELSE "",
     function |-> addr \in Range(data.functions),
     has_line_comment |-> addr \in DOMAIN data.line_comments,
     line_comment |-> IF addr \in DOMAIN data.line_comments
                      THEN data.line_comments[addr] ELSE "",
     has_func_comment |-> addr \in DOMAIN data.func_comments,
     func_comment |-> IF addr \in DOMAIN data.func_comments
                      THEN data.func_comments[addr] ELSE ""]

\* schema.py iter_address_entries
iter_address_entries(data, addresses) ==
    [i \in 1 .. Len(addresses) |-> AddressEntry(data, addresses[i])]

\* build_index: the entries keyed by their address, and the address list
build_index(doc) ==
    LET addresses    == collect_addresses(doc.data)
        entries_list == iter_address_entries(doc.data, addresses)
    IN  [entries   |-> DictOf([i \in 1 .. Len(entries_list) |->
                                  << entries_list[i].address, entries_list[i] >>]),
         addresses |-> addresses]

\* bisect.bisect_left(a, x) with 0-based result, by binary search on [lo, hi)
RECURSIVE BisectLeft(_, _, _, _)
BisectLeft(a, x, lo, hi) ==
    IF lo >= hi THEN lo
    ELSE LET mid == (lo + hi) \div 2
         IN  IF a[mid + 1] < x THEN BisectLeft(a, x, mid + 1, hi)
             ELSE BisectLeft(a, x, lo, mid)

bisect_left(a, x) == BisectLeft(a, x, 0, Len(a))

\* the dict that query_address returns
QueryResult(entries, address, before_addrs, current, after_addrs) ==
    [address |-> address,
     before  |-> [i \in 1 .. Len(before_addrs) |-> entries[before_addrs[i]]],
     current |-> current,
     after   |-> [i \in 1 .. Len(after_addrs) |-> entries[after_addrs[i]]]]

\* query_address with the window after a match starting at the match
QueryWindows_IncludeMatch(entries, addresses, idx, address, before, after) ==
    IF idx < Len(addresses) /\ addresses[idx + 1] = address
    THEN QueryResult(entries, address,
                     Slice(addresses, Max(0, idx - before), idx),
                     entries[address],
                     Slice(addresses, idx, idx + after))
    ELSE QueryResult(entries, address,
                     Slice(addresses, Max(0, idx - before), idx),
                     BareEntry(address),
                     Slice(addresses, idx, idx + after))

\* query_address with the window after a miss starting one past idx
QueryWindows_SkipFirst(entries, addresses, idx, address, before, after) ==
    IF idx < Len(addresses) /\ addresses[idx + 1] = address
    THEN QueryResult(entries, address,
                     Slice(addresses, Max(0, idx - before), idx),
                     entries[address],
                     Slice(addresses, idx + 1, idx + 1 + after))
    ELSE QueryResult(entries, address,
                     Slice(addresses, Max(0, idx - before), idx),
                     BareEntry(address),
                     Slice(addresses, idx + 1, idx + 1 + after))

\* query_address without max(0, ...) in the lower bound of the window before
QueryWindows_NoClamp(entries, addresses, idx, address, before, after) ==
    IF idx < Len(addresses) /\ addresses[idx + 1] = address
    THEN QueryResult(entries, address,
                     Slice(addresses, idx - before, idx),
                     entries[address],
                     Slice(addresses, idx + 1, idx + 1 + after))
    ELSE QueryResult(entries, address,
                     Slice(addresses, idx - before, idx),
                     BareEntry(address),
                     Slice(addresses, idx, idx + after))

\* query_address from the if statement on, idx being the 0-based index
QueryWindows(entries, addresses, idx, address, before, after) ==
    IF idx < Len(addresses) /\ addresses[idx + 1] = address
    THEN QueryResult(entries, address,
                     Slice(addresses, Max(0, idx - before), idx),
                     entries[address],
                     Slice(addresses, idx + 1, idx + 1 + after))
    ELSE QueryResult(entries, address,
                     Slice(addresses, Max(0, idx - before), idx),
                     BareEntry(address),
                     Slice(addresses, idx, idx + after))

\* query_address once build_index has returned
QueryIndexed(index, address, before, after) ==
    QueryWindows(index.entries, index.addresses,
                 bisect_left(index.addresses, address), address, before, after)

query_address(doc, address, before, after) ==
    QueryIndexed(build_index(doc), address, before, after)

(***************************************************************************)
(* State                                                                   *)
(***************************************************************************)
VARIABLES
    file,    \* the content of the backing file, as json.load reads it
    doc,     \* the BnidaDocument of the latest invocation as main left it
    last,    \* the latest invocation: its arguments and how it ended
    prev,    \* the invocation before the latest one
    result,  \* the QueryResult of the latest invocation, when it was a query
    ncmds,   \* the number of invocations so far
    rebased, \* the section layouts of an import and its latest rebasing
    procs    \* two invocations of main that run at the same time

vars == << file, doc, last, prev, result, ncmds, rebased, procs >>

Raw(sections, names, functions, func_comments, line_comments, structs, extra) ==
    [t             |-> "obj",
     sections      |-> sections,
     names         |-> names,
     functions     |-> functions,
     func_comments |-> func_comments,
     line_comments |-> line_comments,
     structs       |-> structs,
     extra         |-> extra]

\* the JSON document {}
EmptyRaw == Raw(JAbsent, JAbsent, JAbsent, JAbsent, JAbsent, JAbsent, << >>)

EmptyData ==
    [sections |-> << >>, names |-> << >>, functions |-> << >>,
     func_comments |-> << >>, line_comments |-> << >>, structs |-> << >>]

\* no document: main ended before load_bnida returned one
NoDoc == [loaded |-> FALSE, raw |-> EmptyRaw, data |-> EmptyData]

Loaded(d) == [loaded |-> TRUE, raw |-> d.raw, data |-> d.data]

NoResult ==
    [set |-> FALSE, address |-> 0, before |-> << >>,
     current |-> BareEntry(0), after |-> << >>]

(***************************************************************************)
(* Files that exist before the first invocation                            *)
(***************************************************************************)
\* the shape the tests write: every table present, canonical encodings
FileCanonical ==
    Raw(JObj(<< >>),
        JObj(<< << Str(0), JText("a") >>, << Str(1), JText("b") >> >>),
        JList(<< JInt(0) >>),
        JObj(<< << Str(1), JText("b") >> >>),
        JObj(<< << Str(0), JText("a") >> >>),
        JObj(<< >>),
        << >>)

\* hexadecimal and decimal keys, two keys for one address, values that are
\* no strings, an unsorted function list with a repeated member, sections
\* and structs with missing or malformed sub-fields, an unrecognized key
FileMixed ==
    Raw(JObj(<< << << ".", "t" >>,
                   [t |-> "obj", start |-> JNumStr(<< "0", "x", "1", "0" >>),
                    end |-> JNumOther("absent")] >>,
                << << "s" >>,
                   [t |-> "other", start |-> JNumOther("absent"),
                    end |-> JNumOther("absent")] >> >>),
        JObj(<< << << "0", "x", "1", "0" >>, JText("a") >>,
                << Str(1), JTextOther("null") >> >>),
        JList(<< JNumStr(<< "0", "x", "1", "0" >>), JInt(1), JNumStr(<< "1" >>) >>),
        JObj(<< << Str(0), JText("a") >> >>),
        JObj(<< << Str(16), JText("b") >>,
                << << "0", "x", "1", "0" >>, JTextOther("null") >> >>),
        JObj(<< << << "s", "t" >>,
                   [t |-> "obj", size |-> JInt(4),
                    members |-> JObj(<< << << "x" >>,
                                          [t |-> "obj", offset |-> JInt(0),
                                           size |-> JNumStr(<< "4" >>),
                                           type |-> JTextOther("absent")] >> >>)] >> >>),
        << << "meta", "v1" >> >>)

\* a key of names that is no number
FileBadKey ==
    [EmptyRaw EXCEPT !.names = JObj(<< << << "z" >>, JText("a") >> >>)]

\* valid JSON whose top level is no object
FileNotObject == [EmptyRaw EXCEPT !.t = "array"]

\* members of functions that are neither integers nor strings
FileNullFunction ==
    [EmptyRaw EXCEPT !.functions = JList(<< JNumOther("null"), JNumOther("float") >>)]

\* a negative address
FileNegative ==
    [EmptyRaw EXCEPT !.names = JObj(<< << << "-", "1" >>, JText("a") >> >>),
                     !.functions = JList(<< JInt(-1) >>)]

InitFiles == {EmptyRaw, FileCanonical, FileMixed, FileBadKey, FileNotObject,
              FileNullFunction, FileNegative}

(***************************************************************************)
(* __main__.py: main                                                       *)
(***************************************************************************)
\* load_bnida: ok = FALSE stands for the ValueError raised for a top level
\* that is no object, or the one that leaves from_json
load_bnida(f) == IF f.t # "obj" THEN Failure ELSE from_json(f)

\* write_bnida dumping the JSON that was loaded, not doc.to_json()
write_bnida_Unmerged(d) == d.raw

\* write_bnida: the new content of the file
write_bnida(d) == to_json(d)

\* address arguments as typed on the command line
AddrArgs == {Str(a) : a \in Addrs}

\* the default of -C / --context
DefaultContext == 1

Invocation(cmd, addr, val, before, after, err, code, wrote) ==
    [cmd |-> cmd, addr |-> addr, val |-> val, before |-> before, after |-> after,
     err |-> err, code |-> code, wrote |-> wrote]

\* main writing the document back in a finally clause, also after a CliError
MutationRun_WriteAlways(cmd, address, val, loaded, out) ==
    IF ~address.ok
    THEN /\ last' = Invocation(cmd, 0, val, 0, 0, "Usage", 2, FALSE)
         /\ doc' = NoDoc
         /\ file' = file
    ELSE IF ~loaded.ok
    THEN /\ last' = Invocation(cmd, address.v, val, 0, 0, "LoadError", 1, FALSE)
         /\ doc' = NoDoc
         /\ file' = file
    ELSE /\ last' = Invocation(cmd, address.v, val, 0, 0, out.err,
                               IF out.err # "none" THEN 1 ELSE 0, TRUE)
         /\ doc' = Loaded(out.doc)
         /\ file' = write_bnida(out.doc)

\* main for a mutation command once the arguments are parsed: loaded is what
\* load_bnida returns and out what the operation of the command makes of it
MutationRun(cmd, address, val, loaded, out) ==
    IF ~address.ok
    THEN \* parser.parse_args exits with status 2
         /\ last' = Invocation(cmd, 0, val, 0, 0, "Usage", 2, FALSE)
         /\ doc' = NoDoc
         /\ file' = file
    ELSE IF ~loaded.ok
    THEN \* the ValueError leaves main: traceback, status 1
         /\ last' = Invocation(cmd, address.v, val, 0, 0, "LoadError", 1, FALSE)
         /\ doc' = NoDoc
         /\ file' = file
    ELSE IF out.err # "none"
    THEN \* except CliError: return 1
         /\ last' = Invocation(cmd, address.v, val, 0, 0, out.err, 1, FALSE)
         /\ doc' = Loaded(out.doc)
         /\ file' = file
    ELSE /\ last' = Invocation(cmd, address.v, val, 0, 0, "none", 0, TRUE)
         /\ doc' = Loaded(out.doc)
         /\ file' = write_bnida(out.doc)

\* main for the five mutation commands; apply(doc, address, value) is the
\* operation the command dispatches to
Mutation(cmd, apply(_, _, _), arg, val) ==
    /\ ncmds' = ncmds + 1
    /\ prev' = last
    /\ result' = NoResult
    /\ UNCHANGED << rebased, procs >>
    /\ MutationRun(cmd, parse_address(arg), val, load_bnida(file),
                   apply(load_bnida(file).v, parse_address(arg).v, val))

AddFunctionCmd == \E arg \in AddrArgs, val \in Vals :
    /\ ncmds < MaxCmds
    /\ Mutation("add-function", add_function, arg, val)

AddVariableCmd == \E arg \in AddrArgs, val \in Vals :
    /\ ncmds < MaxCmds
    /\ Mutation("add-variable", add_variable, arg, val)

AddCommentCmd == \E arg \in AddrArgs, val \in Vals :
    /\ ncmds < MaxCmds
    /\ Mutation("add-comment", add_comment, arg, val)

RenameNameCmd == \E arg \in AddrArgs, val \in Vals :
    /\ ncmds < MaxCmds
    /\ Mutation("rename-name", rename_name, arg, val)

RenameCommentCmd == \E arg \in AddrArgs, val \in Vals :
    /\ ncmds < MaxCmds
    /\ Mutation("rename-comment", rename_comment, arg, val)

\* the QueryResult that main holds
HeldResult(res) ==
    [set |-> TRUE, address |-> res.address, before |-> res.before,
     current |-> res.current, after |-> res.after]

\* main for the query command once the arguments are parsed
QueryRun(address, before, after, loaded) ==
    IF ~address.ok
    THEN /\ last' = Invocation("query", 0, "", before, after, "Usage", 2, FALSE)
         /\ doc' = NoDoc
         /\ result' = NoResult
    ELSE IF ~loaded.ok
    THEN /\ last' = Invocation("query", address.v, "", before, after,
                               "LoadError", 1, FALSE)
         /\ doc' = NoDoc
         /\ result' = NoResult
    ELSE /\ last' = Invocation("query", address.v, "", before, after,
                               "none", 0, FALSE)
         /\ doc' = Loaded(loaded.v)
         /\ result' = HeldResult(query_address(loaded.v, address.v, before, after))

\* main for the query command
Query(arg, before, after) ==
    /\ ncmds' = ncmds + 1
    /\ prev' = last
    /\ file' = file
    /\ UNCHANGED << rebased, procs >>
    /\ QueryRun(parse_address(arg), before, after, load_bnida(file))

\* query ADDRESS, with the default context on both sides
QueryCmd == \E arg \in AddrArgs :
    /\ ncmds < MaxCmds
    /\ Query(arg, DefaultContext, DefaultContext)

NoInvocation == Invocation("none", 0, "", 0, 0, "none", 0, FALSE)

\* no import is under way
NoRebase ==
    [sections |-> << >>, target |-> << >>, called |-> FALSE, address |-> 0,
     out |-> Failure]

\* a run of main at one of its steps: before load_bnida ("start"), between
\* load_bnida and the operation ("loaded"), or returned ("done")
Run(pc, cmd, addr, val, d, err, code, loaded_at, ended_at) ==
    [pc |-> pc, cmd |-> cmd, addr |-> addr, val |-> val, doc |-> d,
     err |-> err, code |-> code, loaded_at |-> loaded_at, ended_at |-> ended_at]

Procs == {"p", "q"}

\* no run of main is under way
NoProcs == [p \in Procs |-> Run("none", "none", 0, "", NoDoc, "none", 0, 0, 0)]

Init ==
    /\ file \in InitFiles
    /\ doc = NoDoc
    /\ last = NoInvocation
    /\ prev = NoInvocation
    /\ result = NoResult
    /\ ncmds = 0
    /\ rebased = NoRebase
    /\ procs = NoProcs

Next ==
    \/ AddFunctionCmd
    \/ AddVariableCmd
    \/ AddCommentCmd
    \/ RenameNameCmd
    \/ RenameCommentCmd
    \/ QueryCmd

Spec == Init /\ [][Next]_vars

(***************************************************************************)
(* The query engine on its own: one query on each of a family of stores    *)
(***************************************************************************)
QAddrs == 0 .. MaxQAddr

Counts == 0 .. MaxCount

\* what a store may record at one address: nothing, a name, a function
\* start, a line comment, or everything
Profiles == {"none", "name", "function", "comment", "all"}

QueryStore(profile) ==
    LET named     == {a \in QAddrs : profile[a] \in {"name", "all"}}
        commented == {a \in QAddrs : profile[a] \in {"comment", "all"}}
        described == {a \in QAddrs : profile[a] = "all"}
        funcs     == {a \in QAddrs : profile[a] \in {"function", "all"}}
    IN  [sections      |-> << >>,
         names         |-> [a \in named |-> "a"],
         functions     |-> SortedSeq(funcs),
         func_comments |-> [a \in described |-> "b"],
         line_comments |-> [a \in commented |-> "b"],
         structs       |-> << >>]

QueryFiles ==
    {merge_bnida(EmptyRaw, QueryStore(profile)) : profile \in [QAddrs -> Profiles]}

InitQuery ==
    /\ file \in QueryFiles
    /\ doc = NoDoc
    /\ last = NoInvocation
    /\ prev = NoInvocation
    /\ result = NoResult
    /\ ncmds = 0
    /\ rebased = NoRebase
    /\ procs = NoProcs

\* query ADDRESS -B before -A after
QueryWindowCmd ==
    \E a \in 0 .. (MaxQAddr + 1), before \in Counts, after \in Counts :
        /\ ncmds = 0
        /\ Query(Str(a), before, after)

NextQuery == QueryWindowCmd

SpecQuery == InitQuery /\ [][NextQuery]_vars

(***************************************************************************)
(* The context options of query: -C / -B / -A as argparse hands them over  *)
(***************************************************************************)
\* int(s), the argparse type of -C / -B / -A: a sign and decimal digits
\* (leading zeros allowed); ok = FALSE stands for the ValueError that
\* argparse turns into a usage error
IntBase10(s) ==
    IF Len(s) >= 1 /\ s[1] \in {"-", "+"}
    THEN IF AllDigits(SubSeq(s, 2, Len(s)), 10)
         THEN Ok(IF s[1] = "-" THEN 0 - DigitsValue(SubSeq(s, 2, Len(s)), 10)
                 ELSE DigitsValue(SubSeq(s, 2, Len(s)), 10))
         ELSE Failure
    ELSE IF AllDigits(s, 10) THEN Ok(DigitsValue(s, 10)) ELSE Failure

\* an option that is not on the command line
NotGiven == [given |-> FALSE, text |-> << >>]

\* an option on the command line with its text
Given(text) == [given |-> TRUE, text |-> text]

\* the texts given to -C / -B / -A: every count of -MaxCount .. MaxCount as
\* str writes it, and a text that is no number
ContextTexts == {Str(n) : n \in (0 - MaxCount) .. MaxCount} \cup {<< "x" >>}

ContextOptions == {NotGiven} \cup {Given(text) : text \in ContextTexts}

\* parse_args accepts an option: it is absent or its text converts
OptionOk(option) == option.given => IntBase10(option.text).ok

\* args.context: the converted text, or the default
ArgsContext(context) ==
    IF context.given THEN IntBase10(context.text).v ELSE DefaultContext

\* before / after of main: the option of the side when it is given
\* (is not None), else args.context
ContextCount(context, side) ==
    IF side.given THEN IntBase10(side.text).v ELSE ArgsContext(context)

\* parser.parse_args for query: the address, or the usage error of an
\* argument that its type refuses
ParseQueryArgs(arg, context, before_context, after_context) ==
    IF OptionOk(context) /\ OptionOk(before_context) /\ OptionOk(after_context)
    THEN parse_address(arg)
    ELSE Failure

\* query ADDRESS [-C context] [-B before_context] [-A after_context]
QueryContextCmd ==
    \E arg \in AddrArgs, context \in ContextOptions,
       before_context \in ContextOptions, after_context \in ContextOptions :
        /\ ncmds = 0
        /\ ncmds' = ncmds + 1
        /\ prev' = last
        /\ file' = file
        /\ UNCHANGED << rebased, procs >>
        /\ QueryRun(ParseQueryArgs(arg, context, before_context, after_context),
                    ContextCount(context, before_context),
                    ContextCount(context, after_context),
                    load_bnida(file))

NextContext == QueryContextCmd

SpecContext == Init /\ [][NextContext]_vars

(***************************************************************************)
(* Address rebasing (spec.md 4.4).  The importer that rebases is not among *)
(* the source files; rebase is written from the specification's algorithm. *)
(***************************************************************************)
\* section bounds are addresses of 0 .. MaxSecAddr + 1
MaxSecAddr == 2

\* the target's sections start at 0 .. MaxShift
MaxShift == 1

SectionNames == {<< ".", "t" >>, << ".", "d" >>}

SecAddrs == 0 .. (MaxSecAddr + 1)

\* Section: start <= end
SourceRanges == {r \in [start : SecAddrs, end : SecAddrs] : r.start <= r.end}

TargetRanges == {[start |-> s, end |-> s + MaxSecAddr + 1] : s \in 0 .. MaxShift}

\* the mappings of some section names to ranges
Layouts(ranges) == UNION {[S -> ranges] : S \in SUBSET SectionNames}

\* address is in the range [start, end) of section
Contains(section, address) == section.start <= address /\ address < section.end

\* the sections of a layout that contain address
Covering(sections, address) ==
    {name \in DOMAIN sections : Contains(sections[name], address)}

\* the sections of one load do not overlap: at most one contains an address
SourceLayouts ==
    {l \in Layouts(SourceRanges) :
        \A a \in SecAddrs : Cardinality(Covering(l, a)) <= 1}

TargetLayouts == Layouts(TargetRanges)

\* rebasing fails
NotMappable == [ok |-> FALSE, v |-> 0]

\* the address rebased through the source section called name
RebasedThrough(name, sourceSections, targetSectionLookup, address) ==
    IF name \notin DOMAIN targetSectionLookup THEN NotMappable
    ELSE Ok(targetSectionLookup[name].start
            + (address - sourceSections[name].start))

\* rebase adding the address to the target's start, the offset not computed
rebase_NoOffset(sourceSections, targetSectionLookup, address) ==
    IF Covering(sourceSections, address) = {} THEN NotMappable
    ELSE IF (CHOOSE n \in Covering(sourceSections, address) : TRUE)
                \notin DOMAIN targetSectionLookup
    THEN NotMappable
    ELSE Ok(targetSectionLookup[
                CHOOSE n \in Covering(sourceSections, address) : TRUE].start
            + address)

\* rebase(sourceSections, targetSectionLookup, address)
rebase(sourceSections, targetSectionLookup, address) ==
    IF Covering(sourceSections, address) = {} THEN NotMappable
    ELSE RebasedThrough(CHOOSE n \in Covering(sourceSections, address) : TRUE,
                        sourceSections, targetSectionLookup, address)

\* an import starts: the sections of the file and those of the target
InitRebase ==
    /\ file = EmptyRaw
    /\ doc = NoDoc
    /\ last = NoInvocation
    /\ prev = NoInvocation
    /\ result = NoResult
    /\ ncmds = 0
    /\ procs = NoProcs
    /\ \E sections \in SourceLayouts, target \in TargetLayouts :
           rebased = [NoRebase EXCEPT !.sections = sections, !.target = target]

\* the import rebases one address
RebaseCmd ==
    \E address \in SecAddrs :
        /\ rebased' = [rebased EXCEPT
                          !.called = TRUE,
                          !.address = address,
                          !.out = rebase(rebased.sections, rebased.target, address)]
        /\ UNCHANGED << file, doc, last, prev, result, ncmds, procs >>

NextRebase == RebaseCmd

SpecRebase == InitRebase /\ [][NextRebase]_vars

(***************************************************************************)
(* Two runs of main on one file.  A run touches the file twice: load_bnida *)
(* reads it, write_bnida replaces it; the operation in between works on    *)
(* the document in the memory of the run.  No lock is taken.               *)
(***************************************************************************)
MutationCmds ==
    {"add-function", "add-variable", "add-comment", "rename-name", "rename-comment"}

\* the if / elif chain of main
Dispatch(cmd, d, address, val) ==
    IF cmd = "add-function" THEN add_function(d, address, val)
    ELSE IF cmd = "add-variable" THEN add_variable(d, address, val)
    ELSE IF cmd = "add-comment" THEN add_comment(d, address, val)
    ELSE IF cmd = "rename-name" THEN rename_name(d, address, val)
    ELSE rename_comment(d, address, val)

\* the position of the next step in the order of the steps taken so far
Tick ==
    1 + Max(Max(procs["p"].loaded_at, procs["p"].ended_at),
            Max(procs["q"].loaded_at, procs["q"].ended_at))

\* the run p after main called load_bnida
LoadedRun(cmd, address, val, loaded, at) ==
    IF ~loaded.ok
    THEN Run("done", cmd, address, val, NoDoc, "LoadError", 1, at, at)
    ELSE Run("loaded", cmd, address, val, Loaded(loaded.v), "none", 0, at, 0)

\* main up to and including doc = load_bnida(args.path)
LoadStep ==
    \E p \in Procs, cmd \in MutationCmds, arg \in AddrArgs, val \in Vals :
        /\ procs[p].pc = "none"
        /\ procs' = [procs EXCEPT
                        ![p] = LoadedRun(cmd, parse_address(arg).v, val,
                                         load_bnida(file), Tick)]
        /\ UNCHANGED << file, doc, last, prev, result, ncmds, rebased >>

\* the run p after the operation returned or raised
FinishedRun(run, out, at) ==
    [run EXCEPT !.pc = "done",
                !.doc = Loaded(out.doc),
                !.err = out.err,
                !.code = IF out.err # "none" THEN 1 ELSE 0,
                !.ended_at = at]

\* what the file holds after the rest of main
FinishedFile(out) == IF out.err # "none" THEN file ELSE write_bnida(out.doc)

\* main from the try statement on: the operation, then either return 1 or
\* write_bnida and return 0
FinishStep ==
    \E p \in Procs :
        /\ procs[p].pc = "loaded"
        /\ procs' = [procs EXCEPT
                        ![p] = FinishedRun(procs[p],
                                           Dispatch(procs[p].cmd, procs[p].doc,
                                                    procs[p].addr, procs[p].val),
                                           Tick)]
        /\ file' = FinishedFile(Dispatch(procs[p].cmd, procs[p].doc,
                                         procs[p].addr, procs[p].val))
        /\ UNCHANGED << doc, last, prev, result, ncmds, rebased >>

ConcurrentFiles == {EmptyRaw, FileCanonical}

InitConcurrent ==
    /\ file \in ConcurrentFiles
    /\ doc = NoDoc
    /\ last = NoInvocation
    /\ prev = NoInvocation
    /\ result = NoResult
    /\ ncmds = 0
    /\ rebased = NoRebase
    /\ procs = NoProcs

NextConcurrent == LoadStep \/ FinishStep

SpecConcurrent == InitConcurrent /\ [][NextConcurrent]_vars

(***************************************************************************)
(* Properties of the mutation operations and of main                       *)
(***************************************************************************)
\* the store that the latest invocation loaded (doc.raw is what it read)
Pre == normalize_bnida(doc.raw).v

\* the store that the file holds now
Stored == normalize_bnida(file).v

NameCreates == {"add-function", "add-variable"}

Creates == NameCreates \cup {"add-comment"}

Renames == {"rename-name", "rename-comment"}

\* the table that a command aims at
Slot(data, cmd) ==
    IF cmd \in {"add-comment", "rename-comment"} THEN data.line_comments
    ELSE data.names

\* the latest invocation loaded a store whose targeted slot held another value
ConflictCase ==
    /\ doc.loaded
    /\ last.cmd \in Creates
    /\ last.addr \in DOMAIN Slot(Pre, last.cmd)
    /\ Slot(Pre, last.cmd)[last.addr] # last.val

\* the latest invocation changed neither the store in memory nor the file
NothingChanged ==
    /\ doc.data = Pre
    /\ file = doc.raw
    /\ ~last.wrote

\* C1 as stated: a create operation whose slot is present with a value
\* different from the requested one fails with Conflict and leaves the whole
\* store as it was
C1_ConflictAlways ==
    ConflictCase => (last.err = "Conflict" /\ NothingChanged)

\* C1 amended: a create operation whose slot is present with a value
\* different from the requested one fails and leaves the whole store as it
\* was (a conflicting add-function does not insert the address into
\* functions); the error is Conflict, except that add-function and
\* add-variable asked for the empty name fail with EmptyValue
C1_ConflictUnlessEmptyName ==
    ConflictCase =>
        /\ NothingChanged
        /\ last.code = 1
        /\ last.err = IF last.cmd \in NameCreates /\ last.val = ""
                      THEN "EmptyValue" ELSE "Conflict"

\* a conflicting add-function at an address that is no function yet
C1_Witness ==
    /\ ConflictCase
    /\ last.cmd = "add-function"
    /\ last.err = "Conflict"
    /\ last.addr \notin Range(Pre.functions)
    /\ last.addr \notin Range(doc.data.functions)

\* the latest two invocations are the same command with the same arguments
Repeated ==
    /\ last.cmd = prev.cmd
    /\ last.addr = prev.addr
    /\ last.val = prev.val

\* C2: a create operation with a non-empty value, applied a second time
\* directly after it succeeded, succeeds and leaves the store (in memory and
\* in the file) identical to the store after the first application
C2_CreateIdempotent ==
    (Repeated /\ prev.cmd \in Creates /\ prev.err = "none" /\ prev.val # "") =>
        /\ last.err = "none"
        /\ last.code = 0
        /\ doc.data = Pre
        /\ file = doc.raw

\* add-function applied twice, the first application having changed the file
C2_Witness ==
    /\ Repeated
    /\ prev.cmd = "add-function"
    /\ prev.err = "none"
    /\ last.err = "none"
    /\ file # EmptyRaw
    /\ last.addr \in Range(Stored.functions)
    /\ Stored.names[last.addr] = last.val

\* C3: a rename operation whose slot is absent fails with NotFound for every
\* replacement value, the empty one included; it does not create the slot
\* and the store is unchanged
C3_RenameRequiresExisting ==
    (doc.loaded /\ last.cmd \in Renames
     /\ last.addr \notin DOMAIN Slot(Pre, last.cmd)) =>
        /\ last.err = "NotFound"
        /\ last.code = 1
        /\ NothingChanged
        /\ last.addr \notin DOMAIN Slot(doc.data, last.cmd)
        /\ last.addr \notin DOMAIN Slot(Stored, last.cmd)

\* rename-comment with a non-empty text on a store without that comment
C3_Witness ==
    /\ doc.loaded
    /\ last.cmd = "rename-comment"
    /\ last.val # ""
    /\ last.err = "NotFound"
    /\ last.addr \notin DOMAIN Pre.line_comments

\* C4: after a rename operation called with the empty value the slot is
\* absent, and a rename operation on that slot that comes next fails with
\* NotFound
C4_EmptyRenameDeletes ==
    /\ (doc.loaded /\ last.cmd \in Renames /\ last.val = "") =>
           /\ last.addr \notin DOMAIN Slot(doc.data, last.cmd)
           /\ last.addr \notin DOMAIN Slot(Stored, last.cmd)
    /\ (prev.cmd \in Renames /\ prev.val = "" /\ prev.err \in {"none", "NotFound"}
        /\ last.cmd = prev.cmd /\ last.addr = prev.addr) =>
           last.err = "NotFound"

\* a rename with the empty value removed a slot that was there, and the
\* rename that came next was refused
C4_Witness ==
    /\ prev.cmd = "rename-name"
    /\ prev.val = ""
    /\ prev.err = "none"
    /\ last.cmd = "rename-name"
    /\ last.addr = prev.addr
    /\ last.val # ""
    /\ last.err = "NotFound"

\* C5: add-function and add-variable with the empty name fail with
\* EmptyValue on every store, also when the name slot holds a non-empty name
\* (the emptiness check comes before the conflict check), and change nothing
C5_EmptyNameRejectedFirst ==
    (doc.loaded /\ last.cmd \in NameCreates /\ last.val = "") =>
        /\ last.err = "EmptyValue"
        /\ last.code = 1
        /\ NothingChanged

\* the empty name asked for an address that holds a non-empty name
C5_Witness ==
    /\ doc.loaded
    /\ last.cmd = "add-function"
    /\ last.val = ""
    /\ last.addr \in DOMAIN Pre.names
    /\ Pre.names[last.addr] # ""
    /\ last.err = "EmptyValue"

\* the value that table holds at address a survived the latest invocation
Kept(pre, post, a) == a \in DOMAIN post /\ post[a] = pre[a]

\* the latest invocation is a successful rename command aimed at table[a]
RenamedAt(cmd, a) == last.cmd = cmd /\ last.addr = a /\ last.err = "none"

\* table pre became table post by a successful rename at most
NoSilentChange(pre, post, rename) ==
    \A a \in DOMAIN pre :
        /\ Kept(pre, post, a) \/ RenamedAt(rename, a)
        /\ a \notin DOMAIN post => (RenamedAt(rename, a) /\ last.val = "")

\* C6: a name or line comment that the store holds is still there, with the
\* same value, after every invocation, in memory and in the file, unless the
\* invocation is a successful rename command aimed at that slot; a slot
\* disappears only through a rename with the empty value
C6_NoSilentOverwrite ==
    doc.loaded =>
        /\ NoSilentChange(Pre.names, doc.data.names, "rename-name")
        /\ NoSilentChange(Pre.names, Stored.names, "rename-name")
        /\ NoSilentChange(Pre.line_comments, doc.data.line_comments, "rename-comment")
        /\ NoSilentChange(Pre.line_comments, Stored.line_comments, "rename-comment")

\* a create command that succeeded on a store that held other names and
\* comments, all of which are still there
C6_Witness ==
    /\ doc.loaded
    /\ last.cmd = "add-comment"
    /\ last.err = "none"
    /\ last.wrote
    /\ DOMAIN Pre.line_comments # {}
    /\ DOMAIN Pre.names # {}
    /\ last.addr \notin DOMAIN Pre.line_comments

\* the store that a successful mutation command has to leave behind
Requested(pre) ==
    [sections      |-> pre.sections,
     names         |-> IF last.cmd \in NameCreates
                          \/ (last.cmd = "rename-name" /\ last.val # "")
                       THEN DictSet(pre.names, last.addr, last.val)
                       ELSE IF last.cmd = "rename-name"
                       THEN DictDel(pre.names, last.addr)
                       ELSE pre.names,
     functions     |-> IF last.cmd = "add-function"
                       THEN Range(pre.functions) \cup {last.addr}
                       ELSE Range(pre.functions),
     func_comments |-> pre.func_comments,
     line_comments |-> IF last.cmd = "add-comment"
                          \/ (last.cmd = "rename-comment" /\ last.val # "")
                       THEN DictSet(pre.line_comments, last.addr, last.val)
                       ELSE IF last.cmd = "rename-comment"
                       THEN DictDel(pre.line_comments, last.addr)
                       ELSE pre.line_comments,
     structs       |-> pre.structs]

\* C7: a mutation command that ends with Conflict, NotFound or EmptyValue
\* exits with 1 and leaves the file as it was; one that succeeds exits with
\* 0 and the file is the serialization of the store with the whole requested
\* change; a query and a command whose load fails do not write the file
C7_AllOrNothing ==
    /\ last.err \in {"Conflict", "NotFound", "EmptyValue"} =>
           (last.code = 1 /\ ~last.wrote /\ file = doc.raw)
    /\ (last.cmd \in Creates \cup Renames /\ last.err = "none") =>
           /\ last.code = 0
           /\ last.wrote
           /\ file = merge_bnida(doc.raw, doc.data)
           /\ [Stored EXCEPT !.functions = Range(@)] = Requested(Pre)
    /\ last.cmd = "query" /\ doc.loaded => (~last.wrote /\ file = doc.raw)
    /\ last.err = "LoadError" => (~last.wrote /\ ~load_bnida(file).ok)

\* a refused command on a file that is not in the form main writes
C7_Witness ==
    /\ last.err = "Conflict"
    /\ last.code = 1
    /\ file = FileMixed

(***************************************************************************)
(* Properties of the query engine                                          *)
(***************************************************************************)
\* the addresses that some table of the store records
Recorded(data) ==
    DOMAIN data.names \cup DOMAIN data.line_comments
    \cup DOMAIN data.func_comments \cup Range(data.functions)

\* sortedAddresses
SortedAddresses == SortedSeq(Recorded(doc.data))

\* e is the full entry of address a: each optional field is there exactly
\* when its table records a, with the value of the table
IsEntryOf(e, data, a) ==
    /\ e.address = a
    /\ e.has_name = (a \in DOMAIN data.names)
    /\ e.has_name => e.name = data.names[a]
    /\ e.function = (a \in Range(data.functions))
    /\ e.has_line_comment = (a \in DOMAIN data.line_comments)
    /\ e.has_line_comment => e.line_comment = data.line_comments[a]
    /\ e.has_func_comment = (a \in DOMAIN data.func_comments)
    /\ e.has_func_comment => e.func_comment = data.func_comments[a]

\* window is the entries of SortedAddresses at the 1-based indices lo .. hi
IsRun(window, lo, hi) ==
    /\ Len(window) = Max(0, hi - lo + 1)
    /\ \A k \in 1 .. Len(window) :
           IsEntryOf(window[k], doc.data, SortedAddresses[lo + k - 1])

\* the 1-based index of a recorded address in SortedAddresses
IndexOf(a) == CHOOSE i \in 1 .. Len(SortedAddresses) : SortedAddresses[i] = a

\* C8: when the queried address is at index i of sortedAddresses, current
\* is its full entry, before is the entries at the up to beforeCount indices
\* right below i, after the entries at the up to afterCount indices right
\* above i, and the queried address is in neither window
C8_ExactMatch ==
    (result.set /\ result.address \in Recorded(doc.data)) =>
        /\ IsEntryOf(result.current, doc.data, result.address)
        /\ IsRun(result.before,
                 Max(1, IndexOf(result.address) - last.before),
                 IndexOf(result.address) - 1)
        /\ IsRun(result.after,
                 IndexOf(result.address) + 1,
                 Min(Len(SortedAddresses), IndexOf(result.address) + last.after))
        /\ \A k \in 1 .. Len(result.before) :
               result.before[k].address # result.address
        /\ \A k \in 1 .. Len(result.after) :
               result.after[k].address # result.address

\* a match with two addresses below it, one above, and two asked for
C8_Witness ==
    /\ result.set
    /\ result.address \in Recorded(doc.data)
    /\ last.before = 2
    /\ last.after = 2
    /\ Len(result.before) = 2
    /\ Len(result.after) = 1
    /\ result.current.has_name

\* the lower-bound insertion index of a, 0-based
InsertionIndex(a) == Cardinality({x \in Recorded(doc.data) : x < a})

\* C9: when the queried address is not in sortedAddresses and idx is its
\* lower-bound insertion index, current carries the bare address only,
\* before is up to beforeCount entries at indices below idx and after is up
\* to afterCount entries from index idx on, so that the first recorded
\* address above the queried one is the first element of after
C9_NoMatch ==
    (result.set /\ result.address \notin Recorded(doc.data)) =>
        /\ result.current = BareEntry(result.address)
        /\ IsRun(result.before,
                 Max(1, InsertionIndex(result.address) - last.before + 1),
                 InsertionIndex(result.address))
        /\ IsRun(result.after,
                 InsertionIndex(result.address) + 1,
                 Min(Len(SortedAddresses),
                     InsertionIndex(result.address) + last.after))
        /\ (last.after >= 1 /\ \E x \in Recorded(doc.data) : x > result.address) =>
               /\ Len(result.after) >= 1
               /\ result.after[1].address \in Recorded(doc.data)
               /\ result.after[1].address > result.address
               /\ \A x \in Recorded(doc.data) :
                      x > result.address => result.after[1].address <= x

\* a miss between two recorded addresses
C9_Witness ==
    /\ result.set
    /\ result.address \notin Recorded(doc.data)
    /\ Len(result.before) >= 1
    /\ Len(result.after) = 2
    /\ result.after[1].address = result.address + 1

\* the addresses of a window
WindowAddresses(window) == [k \in 1 .. Len(window) |-> window[k].address]

\* w is a run of consecutive elements of SortedAddresses
Contiguous(w) ==
    \E offset \in 0 .. Len(SortedAddresses) :
        /\ offset + Len(w) <= Len(SortedAddresses)
        /\ \A k \in 1 .. Len(w) : w[k] = SortedAddresses[offset + k]

StrictlyIncreasing(w) == \A j, k \in 1 .. Len(w) : j < k => w[j] < w[k]

\* C10: for every store, address and pair of non-negative counts, before has
\* at most beforeCount elements and is the contiguous, strictly increasing
\* run of sortedAddresses that ends right below the queried address, after
\* has at most afterCount elements and is the run that starts right above
\* it; a count of 0 gives an empty window and a window that reaches an end
\* of sortedAddresses is cut short
C10_Windows ==
    result.set =>
        LET below == {x \in Recorded(doc.data) : x < result.address}
            above == {x \in Recorded(doc.data) : x > result.address}
            b     == WindowAddresses(result.before)
            f     == WindowAddresses(result.after)
        IN  /\ Len(b) = Min(last.before, Cardinality(below))
            /\ Len(f) = Min(last.after, Cardinality(above))
            /\ Len(b) <= last.before
            /\ Len(f) <= last.after
            /\ Contiguous(b) /\ StrictlyIncreasing(b)
            /\ Contiguous(f) /\ StrictlyIncreasing(f)
            /\ Range(b) \subseteq below
            /\ Range(f) \subseteq above
            /\ b # << >> => \A x \in below : x <= b[Len(b)]
            /\ f # << >> => \A x \in above : f[1] <= x

\* a window before cut short by the start of sortedAddresses and a window
\* after that was asked to be empty
C10_Witness ==
    /\ result.set
    /\ last.before = 2
    /\ Len(result.before) = 1
    /\ last.after = 0
    /\ result.after = << >>
    /\ \E x \in Recorded(doc.data) : x > result.address

(***************************************************************************)
(* Properties of the context options                                       *)
(***************************************************************************)
\* C11 as stated: a negative before or after count is a usage error, and
\* query_address is never invoked with a negative before or after count
C11_NegativeCountsRejected ==
    (last.cmd = "query" /\ (last.before < 0 \/ last.after < 0)) =>
        (last.err = "Usage" /\ last.code = 2 /\ ~result.set)

(***************************************************************************)
(* Properties of the canonical store                                       *)
(***************************************************************************)
\* the store that main holds, serialized and normalized again
Reparsed == normalize_bnida(merge_bnida(doc.raw, doc.data))

\* C12 as stated: for every store that the program holds (what normalize
\* returned, changed by the mutation operation when there was one),
\* normalizing its serialization gives the same store in every table
C12_RoundTrip ==
    doc.loaded => (Reparsed.ok /\ Reparsed.v = doc.data)

\* s is in ascending order without a repeated element
SortedUnique(s) == \A i, j \in 1 .. Len(s) : i < j => s[i] < s[j]

\* the functions list that serialize emits for the store that main holds
EmittedFunctions ==
    [i \in 1 .. Len(merge_bnida(doc.raw, doc.data).functions.items) |->
        merge_bnida(doc.raw, doc.data).functions.items[i].n]

\* C13 as stated: functions is sorted and duplicate-free in every store that
\* the program holds (after normalize of any input list, after every
\* mutation operation) and in what serialize emits for it
C13_FunctionsSortedUnique ==
    doc.loaded =>
        /\ SortedUnique(doc.data.functions)
        /\ SortedUnique(EmittedFunctions)
        /\ last.wrote => SortedUnique(Stored.functions)

(***************************************************************************)
(* Properties of address rebasing                                          *)
(***************************************************************************)
\* the latest rebasing went through a source section that the target has
MappedThrough(name) ==
    /\ name \in Covering(rebased.sections, rebased.address)
    /\ name \in DOMAIN rebased.target

\* what a rebasing step leaves alone, and what it repeats
RebaseIsPure ==
    /\ rebased'.sections = rebased.sections
    /\ rebased'.target = rebased.target
    /\ file' = file
    /\ (rebased.called /\ rebased'.address = rebased.address) =>
           rebased'.out = rebased.out

\* C14: when a source section contains the address and the target has a
\* section of that name, rebase returns targetSection.start + (address -
\* sourceSection.start); when no source section contains the address, or the
\* target has no section of that name, it fails with NotMappable; a step of
\* rebasing changes neither layout nor the file, and the same address gives
\* the same result again
C14_Rebase ==
    /\ [](rebased.called =>
            /\ \A name \in SectionNames :
                   MappedThrough(name) =>
                       rebased.out = Ok(rebased.target[name].start
                                        + (rebased.address
                                           - rebased.sections[name].start))
            /\ (~\E name \in SectionNames : MappedThrough(name)) =>
                   rebased.out = NotMappable)
    /\ [][RebaseIsPure]_vars

\* an address inside a section that starts above 0 in the source and
\* somewhere else in the target
C14_Witness ==
    /\ rebased.called
    /\ rebased.out.ok
    /\ \E name \in SectionNames :
           /\ MappedThrough(name)
           /\ rebased.sections[name].start > 0
           /\ rebased.address > rebased.sections[name].start
           /\ rebased.target[name].start # rebased.sections[name].start
           /\ DOMAIN rebased.sections # DOMAIN rebased.target

(***************************************************************************)
(* Properties of two runs on one file                                      *)
(***************************************************************************)
Other(p) == IF p = "p" THEN "q" ELSE "p"

AllDone == \A p \in Procs : procs[p].pc = "done"

\* the run p reported success for a value that it added or renamed
AddedValue(p) ==
    /\ procs[p].code = 0
    /\ procs[p].err = "none"
    /\ procs[p].cmd \in Creates \/ procs[p].val # ""

\* the file holds what the run p added or renamed
InFile(p) ==
    /\ procs[p].addr \in DOMAIN Slot(Stored, procs[p].cmd)
    /\ Slot(Stored, procs[p].cmd)[procs[p].addr] = procs[p].val
    /\ procs[p].cmd = "add-function" => procs[p].addr \in Range(Stored.functions)

\* the run q is a successful rename on the slot of the run p that wrote later
ReplacedBy(p, q) ==
    /\ procs[q].cmd \in Renames
    /\ procs[q].err = "none"
    /\ (procs[q].cmd = "rename-name") = (procs[p].cmd \in NameCreates \cup {"rename-name"})
    /\ procs[q].addr = procs[p].addr
    /\ procs[q].ended_at > procs[p].ended_at

\* the run q read the file before the run p wrote it, and wrote it afterwards
Overtaken(p, q) ==
    /\ procs[q].err = "none"
    /\ procs[q].loaded_at < procs[p].ended_at
    /\ procs[q].ended_at > procs[p].ended_at

\* C15 as stated: for two mutation commands on one file, in sequence or with
\* their load and write steps interleaved, the final file holds every value
\* that a command added or renamed with exit code 0, unless a later rename
\* command on that slot replaced it
C15_NoLostUpdate ==
    AllDone =>
        \A p \in Procs :
            AddedValue(p) => (InFile(p) \/ ReplacedBy(p, Other(p)))

\* C15 amended: the final file holds every value that a command added or
\* renamed with exit code 0, unless a later rename command on that slot
\* replaced it, provided the other command did not read the file before
\* this command wrote it and write it afterwards; that holds in particular
\* when one command runs after the other
C15_NoLostUpdateUnlessOvertaken ==
    AllDone =>
        \A p \in Procs :
            (AddedValue(p) /\ ~Overtaken(p, Other(p))) =>
                (InFile(p) \/ ReplacedBy(p, Other(p)))

\* two commands that ran one after the other and both changed the file
C15_Witness ==
    /\ AllDone
    /\ AddedValue("p")
    /\ AddedValue("q")
    /\ procs["q"].loaded_at > procs["p"].ended_at
    /\ procs["p"].cmd = "add-function"
    /\ procs["q"].cmd = "add-comment"
    /\ InFile("p")
    /\ InFile("q")
    /\ file # procs["p"].doc.raw

(***************************************************************************)
(* Properties of the values and addresses that the store holds             *)
(***************************************************************************)
\* no line comment of the store is the empty string
NoEmptyComment(data) ==
    \A a \in DOMAIN data.line_comments : data.line_comments[a] # ""

\* C16 as stated: add-comment called with the empty comment text fails and
\* leaves line_comments unchanged for every store, so that no operation puts
\* an empty line comment into a store that held none
C16_EmptyCommentRejected ==
    /\ (doc.loaded /\ last.cmd = "add-comment" /\ last.val = "") =>
           /\ last.err # "none"
           /\ last.code = 1
           /\ doc.data.line_comments = Pre.line_comments
           /\ Stored.line_comments = Pre.line_comments
    /\ (doc.loaded /\ NoEmptyComment(Pre)) =>
           (NoEmptyComment(doc.data) /\ NoEmptyComment(Stored))

\* the tables of the store that record address a
TablesOf(data, a) ==
    {t \in {"names", "line_comments", "func_comments"} : a \in DOMAIN data[t]}
    \cup (IF a \in Range(data.functions) THEN {"functions"} ELSE {})

\* C17: for the store that a query runs on, the address list of build_index
\* is ascending and duplicate-free and holds exactly the keys of names,
\* line_comments and func_comments and the members of functions; there is
\* one entry per such address, also for an address that a single table
\* records, and it carries name, function flag, line_comment and
\* func_comment exactly when the table records the address, with its value
C17_BuildIndex ==
    (doc.loaded /\ last.cmd = "query") =>
        /\ SortedUnique(build_index(doc).addresses)
        /\ Range(build_index(doc).addresses) = Recorded(doc.data)
        /\ DOMAIN build_index(doc).entries = Recorded(doc.data)
        /\ \A a \in Recorded(doc.data) :
               IsEntryOf(build_index(doc).entries[a], doc.data, a)

\* a query on a store whose functions list repeats a member, with an address
\* that only func_comments records and one that several tables record
C17_Witness ==
    /\ doc.loaded
    /\ last.cmd = "query"
    /\ Len(doc.data.functions) > Cardinality(Range(doc.data.functions))
    /\ \E a \in Recorded(doc.data) : TablesOf(doc.data, a) = {"func_comments"}
    /\ \E a \in Recorded(doc.data) : Cardinality(TablesOf(doc.data, a)) >= 3
    /\ Len(build_index(doc).addresses) >= 3

\* C18 as stated: in every store that the program holds (after normalize of
\* an input that loads, after every mutation operation) every key of names,
\* line_comments and func_comments and every member of functions is a
\* non-negative integer
C18_AddressesNonNegative ==
    doc.loaded => \A a \in Recorded(doc.data) : a >= 0

\* the members of a JSON list of addresses that cannot be parsed as an
\* integer: a string that int(s, 0) refuses, or no integer and no string
BadMembers(value) ==
    IF value.t # "list" THEN {}
    ELSE {i \in 1 .. Len(value.items) :
             \/ value.items[i].t \notin {"int", "str"}
             \/ value.items[i].t = "str" /\ ~IntBase0(value.items[i].s).ok}

\* the keys of a JSON object of addresses that cannot be parsed as an integer
BadKeys(value) ==
    IF value.t # "obj" THEN {}
    ELSE {i \in 1 .. Len(value.items) : ~IntBase0(value.items[i][1]).ok}

\* some address of the JSON document cannot be parsed as an integer
Unparseable(raw) ==
    \/ BadKeys(raw.names) # {}
    \/ BadKeys(raw.line_comments) # {}
    \/ BadKeys(raw.func_comments) # {}
    \/ BadMembers(raw.functions) # {}

\* C19 as stated: an address of names, line_comments, func_comments or
\* functions that cannot be parsed as an integer makes the load fail: no
\* store is produced from such a file, and a command run on it ends with the
\* load error
C19_UnparseableIsFatal ==
    /\ doc.loaded => ~Unparseable(doc.raw)
    /\ (last.cmd # "none" /\ ~last.wrote /\ Unparseable(file)) =>
           (~doc.loaded /\ last.err = "LoadError")

\* table post is table pre except, when touched, at the address of the
\* latest invocation
SameExceptAt(pre, post, touched) ==
    /\ ~touched => post = pre
    /\ \A a \in (DOMAIN pre \cup DOMAIN post) \ {last.addr} :
           /\ a \in DOMAIN pre
           /\ a \in DOMAIN post
           /\ post[a] = pre[a]

\* store post is store pre except for the target of the latest invocation
Framed(pre, post) ==
    /\ post.sections = pre.sections
    /\ post.structs = pre.structs
    /\ post.func_comments = pre.func_comments
    /\ SameExceptAt(pre.names, post.names,
                    last.cmd \in NameCreates \cup {"rename-name"})
    /\ SameExceptAt(pre.line_comments, post.line_comments,
                    last.cmd \in {"add-comment", "rename-comment"})
    /\ Range(pre.functions) \subseteq Range(post.functions)
    /\ Range(post.functions) \subseteq
           Range(pre.functions)
           \cup (IF last.cmd = "add-function" THEN {last.addr} ELSE {})

\* C20: a mutation command changes only its own target at the given address,
\* in memory and in the file: add-variable and rename-name nothing but
\* names[a], add-comment and rename-comment nothing but line_comments[a],
\* add-function nothing but names[a] and the membership of a in functions;
\* no command removes an address from functions, and func_comments,
\* sections, structs, the slots of other addresses and the unrecognized
\* top-level keys stay as they were
C20_Frame ==
    (doc.loaded /\ last.cmd \in Creates \cup Renames) =>
        /\ Framed(Pre, doc.data)
        /\ Framed(Pre, Stored)
        /\ file.extra = doc.raw.extra

\* rename-name with the empty value removed the name of a function from a
\* file that holds an unrecognized key and other names and comments
C20_Witness ==
    /\ doc.loaded
    /\ last.cmd = "rename-name"
    /\ last.val = ""
    /\ last.err = "none"
    /\ last.wrote
    /\ last.addr \in DOMAIN Pre.names
    /\ last.addr \notin DOMAIN Stored.names
    /\ last.addr \in Range(Stored.functions)
    /\ file.extra # << >>
    /\ DOMAIN Stored.names # {}
    /\ DOMAIN Stored.line_comments # {}
    /\ DOMAIN Stored.func_comments # {}

====
